---- MODULE Spec2Model ----
(***************************************************************************)
(* A model of asn_scraper.py: the ASNScraper class that walks the listing  *)
(* pages of one year twice (analysis, then scraping), with the retry loop  *)
(* of _make_request, the caption parser of _get_page_info, the link        *)
(* extractor, the detail extractor and the incremental CSV writes.         *)
(*                                                                         *)
(* Text is modelled as sequences of one-character strings, so that the two *)
(* regular expressions of _get_page_info and the int() conversions are     *)
(* computed on characters, as the code computes them.                      *)
(***************************************************************************)
EXTENDS Integers, Sequences, FiniteSets, TLC

(***************************************************************************)
(* Bounds of the model.                                                    *)
(***************************************************************************)
\* The server reports totals and range ends in 0..MaxTotal.
MaxTotal == 2
\* The server answers at most MaxServed requests for a listing page of one
\* crawl with a page.
MaxServed == 3
\* The server lets at most MaxFail GET attempts of one crawl fail.
MaxFail == 3
\* The captions handed to _get_page_info on its own hold numbers in 0..MaxNum.
MaxNum == 11
\* Against the server that never sends a last page, the page number is
\* counted in 1..MaxPage, going round.
MaxPage == 4
\* The first table of a detail page handed to _extract_accident_details on
\* its own has at most MaxRows rows.
MaxRows == 2

(***************************************************************************)
(* Program constants.                                                      *)
(***************************************************************************)
\* max_retries of _make_request.
max_retries == 3
\* The page size: min(100, ...) in _get_page_info and in scrape_year.
PAGE_SIZE == 100
\* Python's None, for total_accidents before the first page and for proceed.
None == -1

(***************************************************************************)
(* Text.                                                                   *)
(***************************************************************************)
DIGITS == <<"0", "1", "2", "3", "4", "5", "6", "7", "8", "9">>

\* \d
IsDigit(c) ==
    \/ c = "0" \/ c = "1" \/ c = "2" \/ c = "3" \/ c = "4"
    \/ c = "5" \/ c = "6" \/ c = "7" \/ c = "8" \/ c = "9"

\* \s
IsSpace(c) == c = " " \/ c = "\t" \/ c = "\n"

DigitVal(c) ==
    CASE c = "0" -> 0 [] c = "1" -> 1 [] c = "2" -> 2 [] c = "3" -> 3
      [] c = "4" -> 4 [] c = "5" -> 5 [] c = "6" -> 6 [] c = "7" -> 7
      [] c = "8" -> 8 [] c = "9" -> 9

\* int(s) of a string of digits.
RECURSIVE int(_)
int(s) ==
    IF Len(s) = 0 THEN 0
    ELSE 10 * int(SubSeq(s, 1, Len(s) - 1)) + DigitVal(s[Len(s)])

\* The decimal numeral of n, as the server prints it.
RECURSIVE Dec(_)
Dec(n) ==
    IF n < 10 THEN <<DIGITS[n + 1]>>
    ELSE Dec(n \div 10) \o <<DIGITS[(n % 10) + 1]>>

Min(a, b) == IF a <= b THEN a ELSE b

\* The literal p occurs in s at position i.
LiteralAt(s, p, i) ==
    /\ i + Len(p) - 1 <= Len(s)
    /\ \A k \in 1..Len(p) : s[i + k - 1] = p[k]

\* \d* from position i, greedy: the first position at or after i that holds
\* no digit.
RECURSIVE SkipDigits(_, _)
SkipDigits(s, i) ==
    IF i <= Len(s) /\ IsDigit(s[i]) THEN SkipDigits(s, i + 1) ELSE i

\* \s* from position i, greedy.
RECURSIVE SkipSpace(_, _)
SkipSpace(s, i) ==
    IF i <= Len(s) /\ IsSpace(s[i]) THEN SkipSpace(s, i + 1) ELSE i

OCCURRENCES == <<"o", "c", "c", "u", "r", "r", "e", "n", "c", "e", "s">>

SHOWING_OCCURRENCE ==
    <<"s", "h", "o", "w", "i", "n", "g", " ",
      "o", "c", "c", "u", "r", "r", "e", "n", "c", "e">>

\* r'(\d+)\s*occurrences' matches at position i.  A digit can be followed
\* neither by \s nor by "o", so \d+ takes the whole run of digits from i.
TotalMatchAt(s, i) ==
    /\ IsDigit(s[i])
    /\ LiteralAt(s, OCCURRENCES, SkipSpace(s, SkipDigits(s, i)))

\* The leftmost position at or after i where the pattern matches, or 0.
RECURSIVE TotalFrom(_, _)
TotalFrom(s, i) ==
    IF i > Len(s) THEN 0
    ELSE IF TotalMatchAt(s, i) THEN i
    ELSE TotalFrom(s, i + 1)

\* re.search(r'(\d+)\s*occurrences', text): the leftmost match, as
\* [found, group1].
TotalSearch(s) ==
    LET i == TotalFrom(s, 1)
    IN  IF i = 0 THEN [found |-> FALSE, group1 |-> <<>>]
        ELSE [found |-> TRUE, group1 |-> SubSeq(s, i, SkipDigits(s, i) - 1)]

\* r'showing occurrence\s+(\d+)\s*-\s*(\d+)' at position i: where \s+ ends
\* (a), where the "-" must be (dash) and where the second number starts (b).
\* A digit can be followed neither by \s nor by "-", so the first \d+ takes
\* the whole run of digits.
RangeMatchAt(s, i) ==
    /\ s[i] = "s"
    /\ LiteralAt(s, SHOWING_OCCURRENCE, i)
    /\ LET a == SkipSpace(s, i + Len(SHOWING_OCCURRENCE))
           dash == SkipSpace(s, SkipDigits(s, a))
           b == SkipSpace(s, dash + 1)
       IN  /\ a > i + Len(SHOWING_OCCURRENCE)
           /\ a <= Len(s) /\ IsDigit(s[a])
           /\ dash <= Len(s) /\ s[dash] = "-"
           /\ b <= Len(s) /\ IsDigit(s[b])

RECURSIVE RangeFrom(_, _)
RangeFrom(s, i) ==
    IF i > Len(s) THEN 0
    ELSE IF RangeMatchAt(s, i) THEN i
    ELSE RangeFrom(s, i + 1)

\* re.search(r'showing occurrence\s+(\d+)\s*-\s*(\d+)', text): the leftmost
\* match, as [found, group1, group2].
RangeSearch(s) ==
    LET i == RangeFrom(s, 1)
    IN  IF i = 0 THEN [found |-> FALSE, group1 |-> <<>>, group2 |-> <<>>]
        ELSE LET a == SkipSpace(s, i + Len(SHOWING_OCCURRENCE))
                 b == SkipSpace(s, SkipSpace(s, SkipDigits(s, a)) + 1)
             IN  [found |-> TRUE,
                  group1 |-> SubSeq(s, a, SkipDigits(s, a) - 1),
                  group2 |-> SubSeq(s, b, SkipDigits(s, b) - 1)]

(***************************************************************************)
(* _get_page_info: (total_accidents, start, end) of a listing page, or the *)
(* ValueError it raises.  A listing page (soup) is a record: .content is   *)
(* what _get_page_info reads of it, [contentwrapper, caption, text], and   *)
(* .hp what _get_page_links reads of it, [table, rows].                    *)
(***************************************************************************)
Raise(msg) == [ok |-> FALSE, err |-> msg, total |-> 0, start |-> 0, end |-> 0]

\* A variant of the range check that lets a start of 0 pass.
CheckedRange_FromZero(total_accidents, start, end) ==
    IF ~(0 <= start /\ start <= end /\ end <= total_accidents)
    THEN Raise("Invalid range")
    ELSE [ok |-> TRUE, err |-> "", total |-> total_accidents,
          start |-> start, end |-> end]

\* Lines 77-81: the range check and the returned tuple.
CheckedRange(total_accidents, start, end) ==
    IF ~(1 <= start /\ start <= end /\ end <= total_accidents)
    THEN Raise("Invalid range")
    ELSE [ok |-> TRUE, err |-> "", total |-> total_accidents,
          start |-> start, end |-> end]

\* A variant that takes the total as the end of the first page, whatever
\* its size.
PageInfoOfText_NoCap(text) ==
    LET total_match == TotalSearch(text)
        range_match == RangeSearch(text)
    IN  IF ~total_match.found THEN Raise("Could not find total occurrences")
        ELSE LET total_accidents == int(total_match.group1)
             IN  IF range_match.found
                 THEN CheckedRange(total_accidents, int(range_match.group1),
                                   int(range_match.group2))
                 ELSE CheckedRange(total_accidents, 1, total_accidents)

\* Lines 59-81: from the caption's text on.
PageInfoOfText(text) ==
    LET total_match == TotalSearch(text)
        range_match == RangeSearch(text)
    IN  IF ~total_match.found THEN Raise("Could not find total occurrences")
        ELSE LET total_accidents == int(total_match.group1)
             IN  IF range_match.found
                 THEN CheckedRange(total_accidents, int(range_match.group1),
                                   int(range_match.group2))
                 ELSE CheckedRange(total_accidents, 1,
                                   Min(PAGE_SIZE, total_accidents))

_get_page_info(soup) ==
    IF ~soup.content.contentwrapper THEN Raise("Content wrapper not found")
    ELSE IF ~soup.content.caption THEN Raise("Caption not found")
    ELSE PageInfoOfText(soup.content.text)

(***************************************************************************)
(* _get_page_links: the links of the rows after the header row, or the     *)
(* ValueError "Table not found".  A row is [anchor, has_href, href].       *)
(***************************************************************************)
base_url ==
    <<"h", "t", "t", "p", "s", ":", "/", "/", "a", "s", "n", ".",
      "f", "l", "i", "g", "h", "t", "s", "a", "f", "e", "t", "y",
      ".", "o", "r", "g">>

\* self.base_url + link_elem['href']
FullLink(href) == base_url \o href

\* Line 92: link_elem = row.find('a'); line 93: the row counts if it has an
\* anchor and the anchor an href.
HasLink(row) == row.anchor /\ row.has_href

\* Lines 90-95: the links of the rows that have one, in the order of the rows.
LinksOfRows(rows) ==
    LET linked == SelectSeq(rows, HasLink)
    IN  [k \in 1..Len(linked) |-> FullLink(linked[k].href)]

_get_page_links(soup) ==
    IF ~soup.hp.table THEN [ok |-> FALSE, links |-> <<>>]
    ELSE [ok |-> TRUE,
          links |-> LinksOfRows(SubSeq(soup.hp.rows, 2, Len(soup.hp.rows)))]

(***************************************************************************)
(* _extract_accident_details: the record of a detail page.  A detail page  *)
(* is the sequence of its tables, a table the sequence of its rows, a row  *)
(* the sequence of the texts of its td cells.                              *)
(***************************************************************************)
\* The keys of the details dict, in the order of the dict literal.
FIELDS ==
    <<<<"D", "a", "t", "e">>,
      <<"T", "i", "m", "e">>,
      <<"T", "y", "p", "e">>,
      <<"O", "w", "n", "e", "r", "/", "o", "p", "e", "r", "a", "t",
        "o", "r">>,
      <<"R", "e", "g", "i", "s", "t", "r", "a", "t", "i", "o", "n">>,
      <<"M", "S", "N">>,
      <<"Y", "e", "a", "r", " ", "o", "f", " ", "m", "a", "n", "u",
        "f", "a", "c", "t", "u", "r", "e">>,
      <<"E", "n", "g", "i", "n", "e", " ", "m", "o", "d", "e", "l">>,
      <<"F", "a", "t", "a", "l", "i", "t", "i", "e", "s">>,
      <<"O", "t", "h", "e", "r", " ", "f", "a", "t", "a", "l", "i",
        "t", "i", "e", "s">>,
      <<"A", "i", "r", "c", "r", "a", "f", "t", " ", "d", "a", "m",
        "a", "g", "e">>,
      <<"C", "a", "t", "e", "g", "o", "r", "y">>,
      <<"L", "o", "c", "a", "t", "i", "o", "n">>,
      <<"P", "h", "a", "s", "e">>,
      <<"N", "a", "t", "u", "r", "e">>,
      <<"D", "e", "p", "a", "r", "t", "u", "r", "e", " ", "a", "i",
        "r", "p", "o", "r", "t">>,
      <<"D", "e", "s", "t", "i", "n", "a", "t", "i", "o", "n", " ",
        "a", "i", "r", "p", "o", "r", "t">>,
      <<"I", "n", "v", "e", "s", "t", "i", "g", "a", "t", "i", "n",
        "g", " ", "a", "g", "e", "n", "c", "y">>,
      <<"C", "o", "n", "f", "i", "d", "e", "n", "c", "e", " ", "R",
        "a", "t", "i", "n", "g">>,
      <<"U", "R", "L">>>>

FieldSet == {FIELDS[k] : k \in 1..Len(FIELDS)}

URL == FIELDS[20]

\* str.strip(): without the leading and the trailing white space.
RECURSIVE lstrip(_)
lstrip(s) ==
    IF Len(s) > 0 /\ IsSpace(s[1]) THEN lstrip(SubSeq(s, 2, Len(s))) ELSE s

RECURSIVE rstrip(_)
rstrip(s) ==
    IF Len(s) > 0 /\ IsSpace(s[Len(s)])
    THEN rstrip(SubSeq(s, 1, Len(s) - 1)) ELSE s

strip(s) == rstrip(lstrip(s))

\* str.rstrip(':'): without the trailing colons.
RECURSIVE rstrip_colon(_)
rstrip_colon(s) ==
    IF Len(s) > 0 /\ s[Len(s)] = ":"
    THEN rstrip_colon(SubSeq(s, 1, Len(s) - 1)) ELSE s

\* Lines 100-121: every field empty, URL the url.
EmptyDetails(url) ==
    [f \in FieldSet |-> IF f = URL THEN url ELSE <<>>]

\* A variant that stores the value of a row under any key.
ApplyRow_AnyKey(details, cells) ==
    IF Len(cells) >= 2
    THEN LET key == rstrip_colon(strip(cells[1]))
             value == strip(cells[2])
         IN  (key :> value) @@ details
    ELSE details

\* Lines 131-136: one row of the main table.
ApplyRow(details, cells) ==
    IF Len(cells) >= 2
    THEN LET key == rstrip_colon(strip(cells[1]))
             value == strip(cells[2])
         IN  IF key \in DOMAIN details
             THEN [details EXCEPT ![key] = value]
             ELSE details
    ELSE details

RECURSIVE ApplyRows(_, _)
ApplyRows(details, rows) ==
    IF Len(rows) = 0 THEN details
    ELSE ApplyRows(ApplyRow(details, rows[1]), SubSeq(rows, 2, Len(rows)))

\* Lines 100-138, from the parsed response on.
_extract_accident_details(url, soup) ==
    IF Len(soup) > 0 THEN ApplyRows(EmptyDetails(url), soup[1])
    ELSE EmptyDetails(url)

(***************************************************************************)
(* pd.DataFrame(all_samples).to_csv(output_file, index=False): the header  *)
(* is the keys of the dicts (none for an empty list), then one row of      *)
(* values per dict.                                                        *)
(***************************************************************************)
RowOf(details) == [k \in 1..Len(FIELDS) |-> details[FIELDS[k]]]

\* A variant of to_csv that writes the last record only.
to_csv_LastOnly(all_samples) ==
    [exists |-> TRUE,
     columns |-> IF Len(all_samples) = 0 THEN <<>> ELSE FIELDS,
     rows |-> IF Len(all_samples) = 0 THEN <<>>
              ELSE <<RowOf(all_samples[Len(all_samples)])>>]

to_csv(all_samples) ==
    [exists |-> TRUE,
     columns |-> IF Len(all_samples) = 0 THEN <<>> ELSE FIELDS,
     rows |-> [k \in 1..Len(all_samples) |-> RowOf(all_samples[k])]]

(***************************************************************************)
(* _make_request: what attempt number `attempt' (from 0) does with the     *)
(* outcome of session.get and raise_for_status.                            *)
(***************************************************************************)
\* Lines 37-39: the attempt raises requests.RequestException.
RequestException(outcome) == outcome.exc # "" \/ outcome.status >= 400

\* A variant of _make_request that gives up one attempt later.
_make_request_FourAttempts(attempt, outcome) ==
    IF ~RequestException(outcome) THEN "return"
    ELSE IF attempt = max_retries THEN "raise"
    ELSE "retry"

_make_request(attempt, outcome) ==
    IF ~RequestException(outcome) THEN "return"
    ELSE IF attempt = max_retries - 1 THEN "raise"
    ELSE "retry"

(***************************************************************************)
(* What the server and the user may answer.  The server has one of two     *)
(* catalogs: a "small" one, of at most MaxTotal records, whose pages and   *)
(* failures are arbitrary, and a "large" one, of PAGE_SIZE + 1 records on  *)
(* one page that lists PAGE_SIZE of them, or all, and never fails.  (A     *)
(* third one, "endless", has its own specification, SpecLive, below.)      *)
(***************************************************************************)
\* "N occurrences"
BareCaption(N) == Dec(N) \o <<" ">> \o OCCURRENCES

\* "showing occurrence A-B of N occurrences"
ShowingCaption(A, B, N) ==
    SHOWING_OCCURRENCE \o <<" ">> \o Dec(A) \o <<"-">> \o Dec(B)
        \o <<" ", "o", "f", " ">> \o Dec(N) \o <<" ">> \o OCCURRENCES

\* Captions that _get_page_info rejects: no count, start 0, start above end,
\* end above the total.
OddCaptions ==
    {<<"n", "o", "n", "e">>, ShowingCaption(0, 1, 1), ShowingCaption(2, 1, 2),
     ShowingCaption(1, 2, 1)}

Captions(catalog) ==
    IF catalog = "large"
    THEN {ShowingCaption(1, PAGE_SIZE + 1, PAGE_SIZE + 1)}
    ELSE OddCaptions
            \cup {BareCaption(N) : N \in 0..MaxTotal}
            \cup UNION {{ShowingCaption(A, B, N) : A \in 1..B} :
                            <<B, N>> \in {bn \in (1..MaxTotal) \X (1..MaxTotal) :
                                            bn[1] <= bn[2]}}

Href(k) == <<"/">> \o Dec(k)

LinkRow(k) == [anchor |-> TRUE, has_href |-> TRUE, href |-> Href(k)]
NoAnchorRow == [anchor |-> FALSE, has_href |-> FALSE, href |-> <<>>]
NoHrefRow == [anchor |-> TRUE, has_href |-> FALSE, href |-> <<>>]

\* The tr elements of a listing table: a header row, then n rows linking
\* records first, first+1, ..., with or without a row that has no link.
TableRows(header, first, n, odd) ==
    <<header>> \o odd \o [k \in 1..n |-> LinkRow(first + k - 1)]

\* Small: a table without rows, tables whose header or whose first row has
\* no usable link, a table that links record 1 twice, and the tables of
\* 0..MaxTotal linked records.
Tables(catalog) ==
    IF catalog = "large"
    THEN {TableRows(NoAnchorRow, 1, n, <<>>) : n \in {PAGE_SIZE, PAGE_SIZE + 1}}
    ELSE {<<>>,
          TableRows(LinkRow(0), 1, 1, <<>>),
          TableRows(NoAnchorRow, 1, 1, <<NoAnchorRow>>),
          TableRows(NoAnchorRow, 1, 1, <<NoHrefRow>>),
          TableRows(NoAnchorRow, 1, 1, <<LinkRow(1)>>)}
            \cup {TableRows(NoAnchorRow, 1, n, <<>>) : n \in 0..MaxTotal}

\* What a listing page holds inside div#contentwrapper.
Contents(catalog) ==
    IF catalog \notin {"small", "large"} THEN {}
    ELSE
    {[contentwrapper |-> TRUE, caption |-> TRUE, text |-> text] :
        text \in Captions(catalog)}
        \cup (IF catalog = "large" THEN {}
              ELSE {[contentwrapper |-> FALSE, caption |-> FALSE, text |-> <<>>],
                    [contentwrapper |-> TRUE, caption |-> FALSE, text |-> <<>>]})

\* Its table.hp, if any.
HpTables(catalog) ==
    {[table |-> TRUE, rows |-> rows] : rows \in Tables(catalog)}
        \cup (IF catalog = "large" THEN {}
              ELSE {[table |-> FALSE, rows |-> <<>>]})

\* The detail pages of the server: one without a table; one whose first
\* table has a known field, an unknown field and a row of one cell.
DetailPages ==
    <<<<>>,
      << <<  <<<<" ", "D", "a", "t", "e", ":", " ">>, <<" ", "5", " ">>>>,
             <<<<"F", "o", "o", ":">>, <<"x">>>>,
             <<<<"T", "i", "m", "e">>>>  >> >> >>

\* The detail page the server sends for a link: the pages take turns along
\* the record numbers.
DetailPageOf(link) ==
    DetailPages[(int(SubSeq(link, Len(base_url) + 2, Len(link))) % 2) + 1]

\* The GET attempts that fail: session.get raises, or the status is 4xx/5xx.
Failures ==
    {[exc |-> "ConnectionError", status |-> 0],
     [exc |-> "Timeout", status |-> 0],
     [exc |-> "", status |-> 404],
     [exc |-> "", status |-> 503]}

\* A response that carries a page.
Response == [exc |-> "", status |-> 200]

\* What the user may type at the prompt.
Answers == {<<"y">>, <<"Y">>, <<"n">>, <<>>, <<"y", "e", "s">>}

\* str.lower() on the letters an answer is made of.
LowerChar(c) ==
    IF c = "Y" THEN "y" ELSE IF c = "N" THEN "n"
    ELSE IF c = "E" THEN "e" ELSE IF c = "S" THEN "s" ELSE c

lower(s) == [k \in 1..Len(s) |-> LowerChar(s[k])]

\* A variant of the test of the answer that cancels on "n" only.
Cancelled_OnlyN(answer) == lower(answer) = <<"n">>

\* Line 180: proceed.lower() != 'y'
Cancelled(answer) == lower(answer) # <<"y">>

\* The output file before the crawl: missing, or left by an earlier crawl.
NoFile == [exists |-> FALSE, columns |-> <<>>, rows |-> <<>>]
OldFile ==
    [exists |-> TRUE, columns |-> FIELDS,
     rows |-> <<RowOf(EmptyDetails(FullLink(Href(0))))>>]

(***************************************************************************)
(* scrape_year.                                                            *)
(***************************************************************************)
VARIABLES
    pc,              \* "analyze", "prompt", "scrape", "detail" or "done";
                     \* "call" and "returned" for a function called alone
    page,
    total_accidents,
    page_counts,
    page_total,
    start_range,
    end_range,
    page_links,
    i,               \* the index of enumerate(page_links, 1)
    all_samples,
    proceed,
    attempt,         \* the attempt of the _make_request call under way
    result,          \* what scrape_year returned
    errors,          \* the lines of logging.error
    dir_exists,      \* output_dir exists
    output_file,     \* the content of output_file
    catalog,         \* the catalog of the server
    fails,           \* the GET attempts that failed so far
    served,          \* the listing pages the server has sent so far
    arg,             \* the argument of a function called alone
    ret              \* and what it returned

crawl ==
    <<page, total_accidents, page_counts, page_total, start_range,
      end_range, page_links, i, all_samples, proceed, attempt, result,
      errors, dir_exists, output_file, catalog, fails, served>>

vars == <<pc, crawl, arg, ret>>

NotReturned == [returned |-> FALSE, df |-> <<>>]
Returned(df) == [returned |-> TRUE, df |-> df]

\* proceed before input() has returned.
NotAsked == <<"?">>

\* A variant of the comparison that compares the total held with itself.
TotalChanged_Never(total, the_page_total) == total # total

\* Lines 160 and 206: the total of a page is not the one held.
TotalChanged(total, the_page_total) == total # the_page_total

\* The locals of scrape_year at its start, the logger and the budgets of the
\* server.
InitCrawl ==
    /\ page = 1
    /\ total_accidents = None
    /\ page_counts = <<>>
    /\ page_total = None
    /\ start_range = None
    /\ end_range = None
    /\ page_links = <<>>
    /\ i = 0
    /\ all_samples = <<>>
    /\ proceed = NotAsked
    /\ attempt = 0
    /\ result = NotReturned
    /\ errors = <<>>
    /\ fails = 0
    /\ served = 0

Init ==
    /\ pc = "analyze"
    /\ InitCrawl
    /\ catalog \in {"small", "large"}
    /\ \E fs \in {<<FALSE, NoFile>>, <<TRUE, NoFile>>, <<TRUE, OldFile>>} :
          dir_exists = fs[1] /\ output_file = fs[2]
    /\ arg = <<>>
    /\ ret = <<>>

Requesting == pc \in {"analyze", "scrape", "detail"}

\* The server may let this attempt fail.
MayFail == catalog \in {"small", "endless"} /\ fails < MaxFail

\* logging.error(...)
Logged(where, what, msg) ==
    Append(errors, [where |-> where, what |-> what, msg |-> msg])

\* Lines 39-43: an attempt fails and another one follows.
MakeRequestRetry ==
    /\ Requesting
    /\ MayFail
    /\ \E outcome \in Failures : _make_request(attempt, outcome) = "retry"
    /\ attempt' = attempt + 1
    /\ fails' = fails + 1
    /\ UNCHANGED <<pc, page, total_accidents, page_counts, page_total,
                   start_range, end_range, page_links, i, all_samples,
                   proceed, result, errors, dir_exists, output_file,
                   catalog, served, arg, ret>>

\* A variant of the handler of discovery that saves what it has, as the
\* scraping does after its loop.
AnalyzeError_Saves(msg) ==
    /\ errors' = Logged("analyzing page", <<page>>, msg)
    /\ pc' = "done"
    /\ result' = Returned(<<>>)
    /\ dir_exists' = TRUE
    /\ output_file' = to_csv(all_samples)
    /\ UNCHANGED <<page, page_counts, page_links, i, all_samples, attempt,
                   proceed>>

\* Lines 174-176: the error is logged and pd.DataFrame() returned.
AnalyzeError(msg) ==
    /\ errors' = Logged("analyzing page", <<page>>, msg)
    /\ pc' = "done"
    /\ result' = Returned(<<>>)
    /\ UNCHANGED <<page, page_counts, page_links, i, all_samples, attempt,
                   proceed, dir_exists, output_file>>

\* A variant of the final write that writes no file for no record.
FinalWrite_SkipsEmpty(samples) ==
    /\ output_file' = IF samples = <<>> THEN output_file ELSE to_csv(samples)
    /\ result' = Returned(samples)
    /\ pc' = "done"

\* Lines 246-255: the final write and the return, for the samples at hand.
FinalWrite(samples) ==
    /\ output_file' = to_csv(samples)
    /\ result' = Returned(samples)
    /\ pc' = "done"

\* Lines 163-172: the links of an analysed page.
AnalyzeLinks(soup, info, total) ==
    \E links \in {_get_page_links(soup)} :
        IF ~links.ok
        THEN AnalyzeError("Table not found")
        ELSE /\ page_links' = links.links
             /\ page_counts' = Append(page_counts, Len(links.links))
             /\ attempt' = 0
             /\ UNCHANGED <<i, all_samples, proceed, result, errors,
                            dir_exists, output_file>>
             /\ IF info.end >= total
                THEN pc' = "prompt" /\ page' = page
                ELSE pc' = "analyze" /\ page' = page + 1

\* Lines 154-176 for the parsed page and what _get_page_info makes of it.
AnalyzeSoup(soup, info) ==
    IF ~info.ok
    THEN /\ AnalyzeError(info.err)
         /\ UNCHANGED <<total_accidents, page_total, start_range, end_range>>
    ELSE /\ page_total' = info.total
         /\ start_range' = info.start
         /\ end_range' = info.end
         /\ IF total_accidents = None
            THEN /\ total_accidents' = info.total
                 /\ AnalyzeLinks(soup, info, info.total)
            ELSE /\ UNCHANGED total_accidents
                 /\ IF TotalChanged(total_accidents, info.total)
                    THEN AnalyzeError("Total accidents mismatch")
                    ELSE AnalyzeLinks(soup, info, total_accidents)

\* Lines 151-176 once the response is there.  (A value bound by \E over a
\* one-element set is computed once.)
AnalyzePage ==
    /\ pc = "analyze"
    /\ served < MaxServed
    /\ served' = served + 1
    /\ _make_request(attempt, Response) = "return"
    /\ \E content \in Contents(catalog) :
        \E info \in {_get_page_info([content |-> content])} :
        \E hp \in HpTables(catalog) :
            AnalyzeSoup([content |-> content, hp |-> hp], info)
    /\ UNCHANGED <<catalog, fails, arg, ret>>

\* Lines 39-42 under lines 174-176: the last attempt fails during analysis.
AnalyzeFetchFails ==
    /\ pc = "analyze"
    /\ MayFail
    /\ \E outcome \in Failures : _make_request(attempt, outcome) = "raise"
    /\ fails' = fails + 1
    /\ AnalyzeError("RequestException")
    /\ UNCHANGED <<total_accidents, page_total, start_range, end_range,
                   catalog, served, arg, ret>>

\* Lines 178-190: the prompt, and the reset for the scraping.
Confirm ==
    /\ pc = "prompt"
    /\ \E answer \in Answers :
        /\ proceed' = answer
        /\ IF Cancelled(answer)
           THEN /\ pc' = "done"
                /\ result' = Returned(<<>>)
                /\ UNCHANGED <<page, all_samples, attempt, dir_exists>>
           ELSE /\ all_samples' = <<>>
                /\ page' = 1
                /\ dir_exists' = TRUE
                /\ pc' = "scrape"
                /\ attempt' = 0
                /\ UNCHANGED result
    /\ UNCHANGED <<total_accidents, page_counts, page_total, start_range,
                   end_range, page_links, i, errors, output_file, catalog,
                   fails, served, arg, ret>>

\* A variant of the end test that asks for more than the total.
EndOfPage_Strict(end, samples, file) ==
    IF end > total_accidents
    THEN FinalWrite(samples) /\ page' = page /\ attempt' = attempt
    ELSE /\ page' = page + 1
         /\ pc' = "scrape"
         /\ attempt' = 0
         /\ output_file' = file
         /\ result' = result

\* Lines 233-240 (and 246-255 after the break): after the links of a page
\* whose range ends at end, with the samples and the file as they are then.
EndOfPage(end, samples, file) ==
    IF end >= total_accidents
    THEN FinalWrite(samples) /\ page' = page /\ attempt' = attempt
    ELSE /\ page' = page + 1
         /\ pc' = "scrape"
         /\ attempt' = 0
         /\ output_file' = file
         /\ result' = result

\* Lines 218-240: on to the next link, or past the last one.
NextLink(samples, file) ==
    IF i < Len(page_links)
    THEN /\ i' = i + 1
         /\ pc' = "detail"
         /\ attempt' = 0
         /\ page' = page
         /\ output_file' = file
         /\ result' = result
    ELSE i' = i /\ EndOfPage(end_range, samples, file)

\* A variant of the handler of the scraping that returns an empty frame, as
\* the handler of discovery does.
ScrapeError_ReturnsEmpty(msg) ==
    /\ errors' = Logged("processing page", <<page>>, msg)
    /\ pc' = "done"
    /\ result' = Returned(<<>>)
    /\ UNCHANGED <<page, i, all_samples, attempt, output_file>>

\* Lines 242-244 and 246-255: a page-level error is logged and ends the
\* loop.
ScrapeError(msg) ==
    /\ errors' = Logged("processing page", <<page>>, msg)
    /\ FinalWrite(all_samples)
    /\ UNCHANGED <<page, i, all_samples, attempt>>

\* A variant of the expected number of links without the page size.
ExpectedLinks_NoCap(start, end) == end - start + 1

\* Line 213.
ExpectedLinks(start, end) == Min(PAGE_SIZE, end - start + 1)

\* Lines 211-218 (and on): the links of a scraped page.
ScrapeLinks(soup, info) ==
    \E links \in {_get_page_links(soup)},
       expected_links \in {ExpectedLinks(info.start, info.end)} :
        IF ~links.ok
        THEN ScrapeError("Table not found") /\ UNCHANGED page_links
        ELSE /\ page_links' = links.links
             /\ IF Len(links.links) # expected_links
                THEN ScrapeError("Expected links")
                ELSE /\ UNCHANGED <<all_samples, errors>>
                     /\ IF Len(links.links) = 0
                        THEN /\ i' = i
                             /\ EndOfPage(info.end, all_samples, output_file)
                        ELSE /\ i' = 1
                             /\ pc' = "detail"
                             /\ attempt' = 0
                             /\ UNCHANGED <<page, output_file, result>>

\* Lines 202-218 for the parsed page and what _get_page_info makes of it.
ScrapeSoup(soup, info) ==
    IF ~info.ok
    THEN /\ ScrapeError(info.err)
         /\ UNCHANGED <<page_total, start_range, end_range, page_links>>
    ELSE /\ page_total' = info.total
         /\ start_range' = info.start
         /\ end_range' = info.end
         /\ IF TotalChanged(total_accidents, info.total)
            THEN /\ ScrapeError("Total accidents changed")
                 /\ UNCHANGED page_links
            ELSE ScrapeLinks(soup, info)

\* Lines 199-218 once the response is there.
ScrapePage ==
    /\ pc = "scrape"
    /\ served < MaxServed
    /\ served' = served + 1
    /\ _make_request(attempt, Response) = "return"
    /\ \E content \in Contents(catalog) :
        \E info \in {_get_page_info([content |-> content])} :
        \E hp \in HpTables(catalog) :
            ScrapeSoup([content |-> content, hp |-> hp], info)
    /\ UNCHANGED <<total_accidents, page_counts, proceed, dir_exists,
                   catalog, fails, arg, ret>>

\* Lines 39-42 under lines 242-244: the last attempt fails during scraping.
ScrapeFetchFails ==
    /\ pc = "scrape"
    /\ MayFail
    /\ \E outcome \in Failures : _make_request(attempt, outcome) = "raise"
    /\ fails' = fails + 1
    /\ ScrapeError("RequestException")
    /\ UNCHANGED <<total_accidents, page_counts, page_total, start_range,
                   end_range, page_links, proceed, dir_exists, catalog,
                   served, arg, ret>>

\* A variant that puts the new record in front of the list.
ExtractDetail_Prepends ==
    /\ pc = "detail"
    /\ _make_request(attempt, Response) = "return"
    /\ \E soup \in {DetailPageOf(page_links[i])} :
        \E details \in {_extract_accident_details(page_links[i], soup)} :
        \E samples \in {<<details>> \o all_samples} :
            /\ all_samples' = samples
            /\ NextLink(samples, to_csv(samples))
    /\ UNCHANGED <<total_accidents, page_counts, page_total, start_range,
                   end_range, page_links, proceed, errors, dir_exists,
                   catalog, fails, served, arg, ret>>

\* A variant that passes over a link whose URL is in the output file as
\* it finds it.
ExtractDetail_SkipsSaved ==
    /\ pc = "detail"
    /\ _make_request(attempt, Response) = "return"
    /\ IF \E k \in 1..Len(output_file.rows) :
                output_file.rows[k][Len(FIELDS)] = page_links[i]
       THEN /\ all_samples' = all_samples
            /\ NextLink(all_samples, output_file)
       ELSE \E soup \in {DetailPageOf(page_links[i])} :
            \E details \in {_extract_accident_details(page_links[i], soup)} :
            \E samples \in {Append(all_samples, details)} :
                /\ all_samples' = samples
                /\ NextLink(samples, to_csv(samples))
    /\ UNCHANGED <<total_accidents, page_counts, page_total, start_range,
                   end_range, page_links, proceed, errors, dir_exists,
                   catalog, fails, served, arg, ret>>

\* Lines 221-229, then the loops: the record of a detail page is appended
\* and the file rewritten.
ExtractDetail ==
    /\ pc = "detail"
    /\ _make_request(attempt, Response) = "return"
    /\ \E soup \in {DetailPageOf(page_links[i])} :
        \E details \in {_extract_accident_details(page_links[i], soup)} :
        \E samples \in {Append(all_samples, details)} :
            /\ all_samples' = samples
            /\ NextLink(samples, to_csv(samples))
    /\ UNCHANGED <<total_accidents, page_counts, page_total, start_range,
                   end_range, page_links, proceed, errors, dir_exists,
                   catalog, fails, served, arg, ret>>

\* A variant in which the failure of a detail page ends the loop of the
\* pages, as the failure of a listing page does.
DetailFetchFails_Aborts ==
    /\ pc = "detail"
    /\ MayFail
    /\ \E outcome \in Failures : _make_request(attempt, outcome) = "raise"
    /\ fails' = fails + 1
    /\ errors' = Logged("processing", page_links[i], "RequestException")
    /\ FinalWrite(all_samples)
    /\ UNCHANGED <<page, i, attempt, total_accidents, page_counts,
                   page_total, start_range, end_range, page_links,
                   all_samples, proceed, dir_exists, catalog, served, arg,
                   ret>>

\* Lines 39-42 under lines 230-231: the last attempt fails for a detail
\* page, which is logged and skipped.
DetailFetchFails ==
    /\ pc = "detail"
    /\ MayFail
    /\ \E outcome \in Failures : _make_request(attempt, outcome) = "raise"
    /\ fails' = fails + 1
    /\ errors' = Logged("processing", page_links[i], "RequestException")
    /\ NextLink(all_samples, output_file)
    /\ UNCHANGED <<total_accidents, page_counts, page_total, start_range,
                   end_range, page_links, all_samples, proceed, dir_exists,
                   catalog, served, arg, ret>>

Next ==
    \/ MakeRequestRetry
    \/ AnalyzePage
    \/ AnalyzeFetchFails
    \/ Confirm
    \/ ScrapePage
    \/ ScrapeFetchFails
    \/ ExtractDetail
    \/ DetailFetchFails

Spec == Init /\ [][Next]_vars

(***************************************************************************)
(* scrape_year with every request answered in the end, against the         *)
(* "endless" catalog: a server that, when it answers, answers the request  *)
(* for any listing page with the same page, which passes every check and   *)
(* whose range ends below the total.  The analysis then goes from page to  *)
(* page for ever; the loop reads the page number only to build the URL and *)
(* the log, and the server ignores it, so the model counts it, and         *)
(* page_counts with it, in 1..MaxPage, going round.                        *)
(***************************************************************************)
\* "showing occurrence 1-1 of 2 occurrences", with the link of record 1.
EndlessPage ==
    [content |-> [contentwrapper |-> TRUE, caption |-> TRUE,
                  text |-> ShowingCaption(1, 1, 2)],
     hp |-> [table |-> TRUE, rows |-> TableRows(NoAnchorRow, 1, 1, <<>>)]]

\* Line 154: what _get_page_info makes of that page (InitLive computes it).
EndlessInfo == [ok |-> TRUE, err |-> "", total |-> 2, start |-> 1, end |-> 1]

InitLive ==
    /\ pc = "analyze"
    /\ InitCrawl
    /\ catalog = "endless"
    /\ _get_page_info(EndlessPage) = EndlessInfo
    /\ \E fs \in {<<FALSE, NoFile>>, <<TRUE, NoFile>>, <<TRUE, OldFile>>} :
          dir_exists = fs[1] /\ output_file = fs[2]
    /\ arg = <<>>
    /\ ret = <<>>

\* Lines 151-172 against the endless catalog.
AnalyzeEndless ==
    /\ pc = "analyze"
    /\ catalog = "endless"
    /\ _make_request(attempt, Response) = "return"
    /\ IF page < MaxPage
       THEN AnalyzeSoup(EndlessPage, EndlessInfo)
       ELSE \* the same step, the count of the pages going round
            /\ EndlessInfo.ok
            /\ ~TotalChanged(total_accidents, EndlessInfo.total)
            /\ ~(EndlessInfo.end >= total_accidents)
            /\ page_total' = EndlessInfo.total
            /\ start_range' = EndlessInfo.start
            /\ end_range' = EndlessInfo.end
            /\ page_links' = _get_page_links(EndlessPage).links
            /\ pc' = "analyze"
            /\ page' = 1
            /\ page_counts' = <<>>
            /\ attempt' = 0
            /\ UNCHANGED <<total_accidents, i, all_samples, proceed,
                           result, errors, dir_exists, output_file>>
    /\ UNCHANGED <<catalog, fails, served, arg, ret>>

NextLive ==
    \/ MakeRequestRetry
    \/ AnalyzeEndless
    \/ AnalyzeFetchFails

\* Every attempt returns or fails in the end: a step that can be taken is
\* taken.
SpecLive == InitLive /\ [][NextLive]_vars /\ WF_vars(NextLive)

(***************************************************************************)
(* _get_page_info called alone, on a page whose caption is of one of the   *)
(* two forms, with numbers in 0..MaxNum or around PAGE_SIZE.               *)
(***************************************************************************)
CaptionSoup(text) ==
    [content |-> [contentwrapper |-> TRUE, caption |-> TRUE, text |-> text]]

Nums == 0..MaxNum

InfoArgs ==
    {[form |-> "showing", a |-> A, b |-> B, n |-> N,
      soup |-> CaptionSoup(ShowingCaption(A, B, N))] :
        A \in Nums, B \in Nums, N \in Nums}
        \cup {[form |-> "bare", a |-> 0, b |-> 0, n |-> N,
                soup |-> CaptionSoup(BareCaption(N))] :
                    N \in Nums \cup {PAGE_SIZE - 1, PAGE_SIZE, PAGE_SIZE + 1}}

InitInfo ==
    /\ pc = "call"
    /\ InitCrawl
    /\ catalog = "small"
    /\ dir_exists = FALSE
    /\ output_file = NoFile
    /\ arg \in InfoArgs
    /\ ret = <<>>

CallPageInfo ==
    /\ pc = "call"
    /\ ret' = _get_page_info(arg.soup)
    /\ pc' = "returned"
    /\ UNCHANGED <<crawl, arg>>

NextInfo == CallPageInfo

SpecInfo == InitInfo /\ [][NextInfo]_vars

(***************************************************************************)
(* _extract_accident_details called alone, from the parsed response on,    *)
(* on detail pages without a table or whose first table has up to MaxRows  *)
(* rows of the kinds below, with or without a second table.                *)
(***************************************************************************)
\* The rows of a detail page, as the texts of their td cells: a known key
\* with white space and a colon, a known key without a colon, a known key
\* with two colons, an unknown key, the key URL, a row of one cell, a row
\* of three cells, a known key with a space before the colon, a known key
\* in lower case.
DetailRows ==
    {<<<<" ", "D", "a", "t", "e", ":", " ">>, <<" ", "5", " ">>>>,
     <<<<"T", "i", "m", "e">>, <<"x">>>>,
     <<<<"D", "a", "t", "e", ":", ":">>, <<"6">>>>,
     <<<<"F", "o", "o", ":">>, <<"x">>>>,
     <<<<"U", "R", "L", ":">>, <<"u">>>>,
     <<<<"T", "i", "m", "e">>>>,
     <<<<"T", "y", "p", "e">>, <<"a">>, <<"b">>>>,
     <<<<"D", "a", "t", "e", " ", ":">>, <<"7">>>>,
     <<<<"d", "a", "t", "e">>, <<"8">>>>}

\* The sequences of at most n rows.
RECURSIVE RowSeqs(_)
RowSeqs(n) ==
    IF n = 0 THEN {<<>>}
    ELSE LET shorter == RowSeqs(n - 1)
         IN  shorter \cup {Append(rows, row) : rows \in shorter,
                                               row \in DetailRows}

\* A second table, which find_all('table') returns and the code leaves
\* alone.
SecondTable == <<<<<<"T", "y", "p", "e", ":">>, <<"z">>>>>>

DetailSoups ==
    {<<>>}
        \cup {<<rows>> : rows \in RowSeqs(MaxRows)}
        \cup {<<rows, SecondTable>> : rows \in RowSeqs(1)}

DetailArgs ==
    {[url |-> FullLink(Href(k)), soup |-> soup] :
        k \in 1..2, soup \in DetailSoups}

InitDetails ==
    /\ pc = "call"
    /\ InitCrawl
    /\ catalog = "small"
    /\ dir_exists = FALSE
    /\ output_file = NoFile
    /\ arg \in DetailArgs
    /\ ret = <<>>

CallExtractDetails ==
    /\ pc = "call"
    /\ ret' = _extract_accident_details(arg.url, arg.soup)
    /\ pc' = "returned"
    /\ UNCHANGED <<crawl, arg>>

NextDetails == CallExtractDetails

SpecDetails == InitDetails /\ [][NextDetails]_vars

(***************************************************************************)
(* scrape_year called twice for the same year against a catalog that does  *)
(* not change: arg.pages holds the listing pages by number, every request  *)
(* for one of them brings it, a request for a page beyond them fails (404),*)
(* and a detail page is the same whenever it is asked for.  ret holds what *)
(* the first call left, once it is over.                                   *)
(***************************************************************************)
\* The listing pages of such a catalog: a caption that passes or one that
\* has no count, and a table of 1..MaxTotal links, one that links record 1
\* twice, or none.
FixedListings ==
    {[content |-> [contentwrapper |-> TRUE, caption |-> TRUE, text |-> text],
      hp |-> hp] :
        text \in {<<"n", "o", "n", "e">>}
                    \cup {BareCaption(N) : N \in 1..MaxTotal}
                    \cup UNION {{ShowingCaption(A, B, N) : A \in 1..B} :
                            <<B, N>> \in {bn \in (1..MaxTotal) \X (1..MaxTotal) :
                                            bn[1] <= bn[2]}},
        hp \in {[table |-> FALSE, rows |-> <<>>],
                [table |-> TRUE,
                 rows |-> TableRows(NoAnchorRow, 1, 1, <<LinkRow(1)>>)]}
                    \cup {[table |-> TRUE,
                           rows |-> TableRows(NoAnchorRow, 1, n, <<>>)] :
                                n \in 1..MaxTotal}}

FixedCatalogs ==
    {<<p>> : p \in FixedListings}
        \cup {<<p, q>> : p \in FixedListings, q \in FixedListings}

InitTwice ==
    /\ pc = "analyze"
    /\ InitCrawl
    /\ catalog = "small"
    /\ \E fs \in {<<FALSE, NoFile>>, <<TRUE, OldFile>>} :
          dir_exists = fs[1] /\ output_file = fs[2]
    /\ arg \in {[pages |-> pages] : pages \in FixedCatalogs}
    /\ ret = <<>>

\* The page asked for is not in the catalog.
Missing == page > Len(arg.pages)

\* An attempt for a missing page fails and another one follows.
TwiceRetry == Missing /\ MakeRequestRetry

\* The last attempt for a missing page fails.  (Only the analysis can ask
\* for one: the scraping walks the pages the analysis walked.)
TwiceNoPage == Missing /\ AnalyzeFetchFails

\* Lines 151-176 for the page of the catalog.
TwiceAnalyzePage ==
    /\ pc = "analyze"
    /\ ~Missing
    /\ served' = served + 1
    /\ _make_request(attempt, Response) = "return"
    /\ \E soup \in {arg.pages[page]} :
        \E info \in {_get_page_info(soup)} : AnalyzeSoup(soup, info)
    /\ UNCHANGED <<catalog, fails, arg, ret>>

\* Lines 199-218 for the page of the catalog.
TwiceScrapePage ==
    /\ pc = "scrape"
    /\ ~Missing
    /\ served' = served + 1
    /\ _make_request(attempt, Response) = "return"
    /\ \E soup \in {arg.pages[page]} :
        \E info \in {_get_page_info(soup)} : ScrapeSoup(soup, info)
    /\ UNCHANGED <<total_accidents, page_counts, proceed, dir_exists,
                   catalog, fails, arg, ret>>

\* What a call left behind.
Outcome ==
    [all_samples |-> all_samples, output_file |-> output_file,
     result |-> result, proceed |-> proceed, errors |-> errors]

\* Lines 140-146: scrape_year is called again, for the same year: its
\* locals are new, the directory and the file are as the first call left
\* them.
SecondCall ==
    /\ pc = "done"
    /\ DOMAIN ret = {}
    /\ ret' = Outcome
    /\ pc' = "analyze"
    /\ page' = 1
    /\ total_accidents' = None
    /\ page_counts' = <<>>
    /\ page_total' = None
    /\ start_range' = None
    /\ end_range' = None
    /\ page_links' = <<>>
    /\ i' = 0
    /\ all_samples' = <<>>
    /\ proceed' = NotAsked
    /\ attempt' = 0
    /\ result' = NotReturned
    /\ errors' = <<>>
    /\ fails' = 0
    /\ served' = 0
    /\ UNCHANGED <<dir_exists, output_file, catalog, arg>>

NextTwice ==
    \/ TwiceAnalyzePage
    \/ TwiceRetry
    \/ TwiceNoPage
    \/ Confirm
    \/ TwiceScrapePage
    \/ ExtractDetail
    \/ SecondCall

SpecTwice == InitTwice /\ [][NextTwice]_vars

(***************************************************************************)
(* Properties of scrape_year (specification Spec).                         *)
(***************************************************************************)
\* The answers that count as yes.
YesAnswers == {<<"y">>, <<"Y">>}

\* What the output file holds once the records of samples are written.
FileOf(samples) ==
    [exists |-> TRUE,
     columns |-> IF samples = <<>> THEN <<>> ELSE FIELDS,
     rows |-> [k \in 1..Len(samples) |->
                  [f \in 1..Len(FIELDS) |-> samples[k][FIELDS[f]]]]]

\* The step logs one error, of this place and message.
LogsError(where, msg) ==
    /\ Len(errors') = Len(errors) + 1
    /\ SubSeq(errors', 1, Len(errors)) = errors
    /\ errors'[Len(errors')].where = where
    /\ errors'[Len(errors')].msg = msg

\* The step is the last attempt of a request, and it fails.
FetchGivesUp == fails' # fails /\ attempt = max_retries - 1

\* C1: no detail page is requested and neither the output directory nor the
\* output file is touched unless discovery has ended without an error on a
\* page whose end_range reaches the total and the user has then answered
\* "y" or "Y"; the prompt is shown at most once; any other answer makes
\* scrape_year return an empty result, with no detail request and no write,
\* and nothing happens after it.
C1_ConfirmationGate ==
    [][ /\ (pc \in {"scrape", "detail"} \/ pc' \in {"scrape", "detail"})
            => proceed' \in YesAnswers
        /\ (dir_exists' # dir_exists \/ output_file' # output_file)
            => proceed' \in YesAnswers /\ pc # "analyze"
        /\ proceed' # proceed => pc = "prompt" /\ proceed = NotAsked
        /\ pc' = "prompt"
            => /\ pc = "analyze"
               /\ errors' = <<>>
               /\ total_accidents' # None
               /\ page_total' = total_accidents'
               /\ 1 <= start_range' /\ start_range' <= end_range'
               /\ end_range' >= total_accidents'
        /\ (pc = "prompt" /\ proceed' \notin YesAnswers)
            => /\ pc' = "done"
               /\ result' = Returned(<<>>)
               /\ UNCHANGED <<dir_exists, output_file, all_samples, errors>>
        /\ proceed \notin YesAnswers \cup {NotAsked} => FALSE
      ]_vars

\* C1 witness: the user typed "yes", which is not "y": the crawl is over
\* with an empty result and the file of an earlier crawl is as it was.
C1_Witness ==
    /\ pc = "done"
    /\ proceed = <<"y", "e", "s">>
    /\ result = Returned(<<>>)
    /\ errors = <<>>
    /\ output_file = OldFile

\* C2: the total taken from page 1 never changes; a page analysed during
\* discovery whose total differs from it ends the crawl there, with the
\* mismatch logged, an empty result, no prompt and no further request;
\* the mismatch is logged for no other page; after a step of discovery
\* that goes on or reaches the prompt, the total of the page is the total
\* held.
C2_DiscoveryTotalConstant ==
    [][ /\ total_accidents # None => total_accidents' = total_accidents
        /\ (pc = "analyze" /\ total_accidents' # total_accidents)
            => page = 1 /\ total_accidents' = page_total'
        /\ (pc = "analyze" /\ total_accidents # None
                /\ page_total' # total_accidents)
            => /\ LogsError("analyzing page", "Total accidents mismatch")
               /\ errors'[Len(errors')].what = <<page>>
               /\ pc' = "done"
               /\ result' = Returned(<<>>)
               /\ page' = page
               /\ proceed' = NotAsked
        /\ (pc = "analyze" /\ errors' # errors
                /\ errors'[Len(errors')].msg = "Total accidents mismatch")
            => total_accidents # None /\ page_total' # total_accidents
        /\ (pc = "analyze" /\ served' # served /\ pc' # "done")
            => /\ page_total' = total_accidents'
               /\ IF end_range' >= total_accidents'
                  THEN pc' = "prompt" /\ page' = page
                  ELSE pc' = "analyze" /\ page' = page + 1
        /\ pc = "done" => FALSE
      ]_vars

\* C2 witness: two pages with the total of page 1, then a third with another
\* total: discovery ended at page 3 with the mismatch and an empty result.
C2_Witness ==
    /\ pc = "done"
    /\ page = 3
    /\ Len(page_counts) = 2
    /\ Len(errors) = 1
    /\ errors[1].msg = "Total accidents mismatch"
    /\ page_total # total_accidents
    /\ result = Returned(<<>>)
    /\ proceed = NotAsked

\* C3: during extraction, a listing page that cannot be fetched, that
\* fails analysis or the range check, or whose total is not the total of
\* discovery ends the crawl: the error is logged for the page, no record
\* is added or dropped, scrape_year returns the records it has, and no
\* request follows; a listing page goes on to its detail pages only if no
\* error was logged for it.
C3_PageFailureAborts ==
    [][ /\ (pc = "scrape"
                /\ (FetchGivesUp \/ errors' # errors
                        \/ (served' # served
                                /\ page_total' # total_accidents)))
            => /\ Len(errors') = Len(errors) + 1
               /\ errors'[Len(errors')].where = "processing page"
               /\ errors'[Len(errors')].what = <<page>>
               /\ pc' = "done"
               /\ all_samples' = all_samples
               /\ result' = Returned(all_samples)
               /\ page' = page
               /\ i' = i
        /\ (pc = "scrape" /\ served' # served /\ errors' = errors)
            => pc' = "detail" /\ i' = 1 /\ page' = page
        /\ (pc = "scrape" /\ pc' = "scrape")
            => UNCHANGED <<page, served, errors, all_samples>>
        /\ pc = "done" => FALSE
      ]_vars

\* C3 witness: page 2 failed after a record of page 1 was extracted; the
\* crawl is over and the record is in the result.
C3_Witness ==
    /\ pc = "done"
    /\ proceed \in YesAnswers
    /\ page = 2
    /\ Len(all_samples) >= 1
    /\ errors # <<>>
    /\ errors[Len(errors)].where = "processing page"
    /\ errors[Len(errors)].what = <<2>>
    /\ result = Returned(all_samples)

\* The listing page whose links are being followed passed the checks of
\* lines 202-215.
PagePassed ==
    /\ 1 <= start_range /\ start_range <= end_range
    /\ end_range <= page_total
    /\ page_total = total_accidents
    /\ Len(page_links) = Min(PAGE_SIZE, end_range - start_range + 1)
    /\ i \in 1..Len(page_links)

\* C4: while detail pages are followed, the listing page they come from
\* has 1 <= start <= end <= total, the total of discovery, and as many
\* links as min(100, end - start + 1); the accumulated list changes only
\* by the reset after the prompt and by one record appended for the link
\* at hand of such a page; and the file is only ever written with the
\* accumulated list.
C4_OnlyCheckedPagesMerged ==
    [][ /\ pc = "detail" => PagePassed
        /\ pc' = "detail" => PagePassed'
        /\ all_samples' # all_samples
            => /\ pc = "detail"
               /\ Len(all_samples') = Len(all_samples) + 1
               /\ SubSeq(all_samples', 1, Len(all_samples)) = all_samples
               /\ all_samples'[Len(all_samples')] =
                    _extract_accident_details(page_links[i],
                                              DetailPageOf(page_links[i]))
        /\ pc = "detail" => UNCHANGED <<page_links, page_total, start_range,
                                        end_range, total_accidents>>
        /\ output_file' # output_file => output_file' = FileOf(all_samples')
      ]_vars

\* C4 witness: the second link of a page of PAGE_SIZE links is followed,
\* the range of the page being wider than PAGE_SIZE.
C4_Witness ==
    /\ pc = "detail"
    /\ i = 2
    /\ Len(all_samples) = 1
    /\ Len(page_links) = PAGE_SIZE
    /\ end_range - start_range + 1 = PAGE_SIZE + 1

\* The URLs of the records, in the order of the list.
UrlsOf(samples) == [k \in 1..Len(samples) |-> samples[k][URL]]

\* The links for which an error was logged.
FailedLinks ==
    {errors[k].what : k \in {j \in 1..Len(errors) :
                                errors[j].where = "processing"}}

Succeeded(link) == link \notin FailedLinks

\* s is t with some of its elements left out.
RECURSIVE IsSubSeq(_, _)
IsSubSeq(s, t) ==
    IF Len(s) = 0 THEN TRUE
    ELSE IF Len(t) = 0 THEN FALSE
    ELSE IF s[1] = t[1] THEN IsSubSeq(Tail(s), Tail(t))
    ELSE IsSubSeq(s, Tail(t))

\* On the first listing page, the records are those of the links gone
\* through (n of them) but for the failed ones, in the order of the links:
\* one record less for each failure, and, when no link is listed twice,
\* exactly the links without a logged error.
FirstPageRecords(n) ==
    LET gone == SubSeq(page_links, 1, n)
        failures == Cardinality({j \in 1..Len(errors) :
                                    errors[j].where = "processing"})
    IN  /\ Len(all_samples) + failures = n
        /\ IsSubSeq(UrlsOf(all_samples), gone)
        /\ FailedLinks \subseteq {gone[k] : k \in 1..n}
        /\ (\A j, k \in 1..n : j # k => gone[j] # gone[k])
            => UrlsOf(all_samples) = SelectSeq(gone, Succeeded)

\* C5: when the last attempt for a detail page fails, the error is logged
\* for the link, no record is added or dropped, and the crawl goes on: to
\* the next link of the page, or past the last link to the next listing
\* page, or to the final write and the return when the page is the last
\* one.  On the first listing page the records are always those of the
\* links gone through but for the failed ones, in link order.
C5_DetailFailureSkipped ==
    [][ /\ (pc = "detail" /\ FetchGivesUp)
            => /\ LogsError("processing", "RequestException")
               /\ errors'[Len(errors')].what = page_links[i]
               /\ all_samples' = all_samples
               /\ page_links' = page_links
               /\ IF i < Len(page_links)
                  THEN /\ pc' = "detail" /\ i' = i + 1 /\ page' = page
                       /\ attempt' = 0
                       /\ output_file' = output_file
                  ELSE IF end_range >= total_accidents
                  THEN /\ pc' = "done"
                       /\ result' = Returned(all_samples)
                       /\ output_file' = FileOf(all_samples)
                  ELSE /\ pc' = "scrape" /\ page' = page + 1
                       /\ attempt' = 0
                       /\ output_file' = output_file
        /\ (pc' = "detail" /\ page' = 1) => FirstPageRecords(i - 1)'
        /\ (pc = "detail" /\ pc' # "detail" /\ page = 1)
            => FirstPageRecords(Len(page_links))'
      ]_vars

\* C5 witness: of the two links of the only page, the first failed and the
\* second gave its record; the crawl ended without a page error.
C5_Witness ==
    /\ pc = "done"
    /\ page = 1
    /\ Len(page_links) = 2
    /\ Len(errors) = 1
    /\ errors[1].where = "processing"
    /\ errors[1].what = page_links[1]
    /\ UrlsOf(all_samples) = <<page_links[2]>>
    /\ result = Returned(all_samples)

\* C6: during extraction, whenever a request is about to be made and a
\* record has been extracted, the output file holds exactly the accumulated
\* records, in their order.
C6_IncrementalPersistence ==
    (pc \in {"scrape", "detail"} /\ all_samples # <<>>)
        => output_file = FileOf(all_samples) /\ dir_exists

\* C6 witness: the third listing page is requested again after a failed
\* attempt, with two records extracted and in the file.
C6_Witness ==
    /\ pc = "scrape"
    /\ page = 3
    /\ attempt = 1
    /\ Len(all_samples) = 2
    /\ Len(output_file.rows) = 2
    /\ output_file.rows[2][20] = all_samples[2][URL]

\* C7: a request is at its first, second or third attempt; a failed first
\* or second attempt is followed by the next attempt of the same request
\* and changes nothing else of the crawl; a failed third attempt is not
\* followed by a fourth: the error reaches the caller, which logs it; an
\* attempt that brings a response ends the request: what follows is the
\* first attempt of another request, the prompt or the return.
C7_BoundedRetries ==
    [][ /\ Requesting => attempt \in 0..(max_retries - 1)
        /\ Requesting' => attempt' \in 0..(max_retries - 1)
        /\ fails' # fails => Requesting /\ fails' = fails + 1
        /\ (fails' # fails /\ attempt < max_retries - 1)
            => /\ attempt' = attempt + 1
               /\ UNCHANGED <<pc, page, i, page_links, all_samples, errors,
                              result, output_file, served, proceed>>
        /\ (fails' # fails /\ attempt = max_retries - 1)
            => /\ Len(errors') = Len(errors) + 1
               /\ errors'[Len(errors')].msg = "RequestException"
               /\ (attempt' = 0 \/ pc' = "done")
               /\ served' = served
               /\ all_samples' = all_samples
        /\ (Requesting /\ fails' = fails)
            => attempt' = 0 \/ pc' \in {"prompt", "done"}
      ]_vars

\* C7 witness: the three attempts of the first request failed and the
\* error reached scrape_year, which logged it and returned.
C7_Witness ==
    /\ pc = "done"
    /\ served = 0
    /\ fails = max_retries
    /\ attempt = max_retries - 1
    /\ Len(errors) = 1
    /\ errors[1].msg = "RequestException"

\* C8: a step of discovery touches neither the output directory nor the
\* output file, asks the user nothing and extracts nothing; a request that
\* fails for good, and any error logged, ends the crawl there with an
\* empty result, and nothing follows.
C8_DiscoveryErrorNoOutput ==
    [][ /\ pc = "analyze"
            => /\ UNCHANGED <<dir_exists, output_file, all_samples, proceed>>
               /\ proceed = NotAsked
               /\ pc' \in {"analyze", "prompt", "done"}
        /\ (pc = "analyze" /\ (FetchGivesUp \/ pc' = "done"
                                \/ errors' # errors))
            => /\ Len(errors') = Len(errors) + 1
               /\ errors'[Len(errors')].where = "analyzing page"
               /\ errors'[Len(errors')].msg \in
                    {"RequestException", "Content wrapper not found",
                     "Caption not found", "Could not find total occurrences",
                     "Invalid range", "Total accidents mismatch",
                     "Table not found"}
               /\ pc' = "done"
               /\ result' = Returned(<<>>)
        /\ pc = "done" => FALSE
      ]_vars

\* C8 witness: the second page analysed has no table of links: the crawl
\* is over with an empty result, the user was not asked, and the file of an
\* earlier crawl is as it was.
C8_Witness ==
    /\ pc = "done"
    /\ page = 2
    /\ Len(errors) = 1
    /\ errors[1].msg = "Table not found"
    /\ result = Returned(<<>>)
    /\ proceed = NotAsked
    /\ all_samples = <<>>
    /\ output_file = OldFile

\* C9: when scrape_year has returned after a yes, the output directory
\* exists, the output file holds exactly the accumulated records, one row
\* for each, in their order (no row when there is none), and these records
\* are the result.
C9_FinalWrite ==
    (pc = "done" /\ proceed \in YesAnswers)
        => /\ dir_exists
           /\ output_file = FileOf(all_samples)
           /\ Len(output_file.rows) = Len(all_samples)
           /\ result = Returned(all_samples)

\* C9 witness: the first listing page of the extraction failed: scrape_year
\* has returned and the file is there, without a row.
C9_Witness ==
    /\ pc = "done"
    /\ proceed \in YesAnswers
    /\ all_samples = <<>>
    /\ errors # <<>>
    /\ output_file.exists
    /\ output_file.rows = <<>>
    /\ output_file # OldFile

(***************************************************************************)
(* Properties of _get_page_info (specification SpecInfo).                  *)
(***************************************************************************)
\* C10: for the caption "showing occurrence A-B of N occurrences",
\* _get_page_info returns (N, A, B) if 1 <= A <= B <= N and raises if not;
\* whatever the caption, what it returns has 1 <= start <= end <= total.
C10_ShowingForm ==
    pc = "returned"
        => /\ arg.form = "showing"
                => IF 1 <= arg.a /\ arg.a <= arg.b /\ arg.b <= arg.n
                   THEN /\ ret.ok
                        /\ <<ret.total, ret.start, ret.end>>
                                = <<arg.n, arg.a, arg.b>>
                   ELSE ~ret.ok /\ ret.err = "Invalid range"
           /\ ret.ok => /\ 1 <= ret.start
                        /\ ret.start <= ret.end
                        /\ ret.end <= ret.total

\* C10 witness: "showing occurrence 10-11 of 11 occurrences" gave
\* (11, 10, 11).
C10_Witness ==
    /\ pc = "returned"
    /\ arg.form = "showing"
    /\ <<arg.a, arg.b, arg.n>> = <<10, 11, 11>>
    /\ ret.ok
    /\ <<ret.total, ret.start, ret.end>> = <<11, 10, 11>>

\* C11 as stated: for every N, the caption "N occurrences" gives
\* (N, 1, min(100, N)).
C11_BareFormAnyN ==
    (pc = "returned" /\ arg.form = "bare")
        => /\ ret.ok
           /\ ret.total = arg.n
           /\ ret.start = 1
           /\ ret.end = (IF arg.n > 100 THEN 100 ELSE arg.n)

\* C11, amended: for every N >= 1 the caption "N occurrences" gives
\* (N, 1, min(100, N)); for N = 0 _get_page_info raises, the range 1-0 of 0
\* being invalid.
C11_BareFormPositive ==
    (pc = "returned" /\ arg.form = "bare")
        => IF arg.n >= 1
           THEN /\ ret.ok
                /\ ret.total = arg.n
                /\ ret.start = 1
                /\ ret.end = (IF arg.n > 100 THEN 100 ELSE arg.n)
           ELSE ~ret.ok /\ ret.err = "Invalid range"

\* C11 witness: "101 occurrences" gave (101, 1, 100).
C11_Witness ==
    /\ pc = "returned"
    /\ arg.form = "bare"
    /\ arg.n = 101
    /\ ret.ok
    /\ <<ret.total, ret.start, ret.end>> = <<101, 1, 100>>

(***************************************************************************)
(* More properties of scrape_year (specification Spec).                    *)
(***************************************************************************)
\* C12: no two records of the accumulated list have the same URL, and no
\* two rows of the output file of this crawl either.
C12_UrlIsKey ==
    /\ \A j, k \in 1..Len(all_samples) :
            j # k => all_samples[j][URL] # all_samples[k][URL]
    /\ (proceed \in YesAnswers /\ all_samples # <<>>)
        => \A j, k \in 1..Len(output_file.rows) :
                j # k => output_file.rows[j][Len(FIELDS)]
                            # output_file.rows[k][Len(FIELDS)]

(***************************************************************************)
(* Properties of _extract_accident_details (specification SpecDetails).    *)
(***************************************************************************)
\* The rows of the first table of the page, none if there is no table.
MainRows == IF Len(arg.soup) = 0 THEN <<>> ELSE arg.soup[1]

\* The rows that name field f: two cells or more, the first one being f
\* once trimmed and without its trailing colons.
RowsNaming(f) ==
    {k \in 1..Len(MainRows) :
        /\ Len(MainRows[k]) >= 2
        /\ rstrip_colon(strip(MainRows[k][1])) = f}

\* The last of a non-empty set of row numbers.
LastOf(S) == CHOOSE k \in S : \A j \in S : j <= k

C19_UrlIsSourceUrl ==
    pc = "returned" => ret[URL] = arg.url

(***************************************************************************)
(* Properties of two calls of scrape_year (specification SpecTwice).       *)
(***************************************************************************)
\* C14: when the second call against the unchanged catalog is over and the
\* user said yes in both calls, the records, the result and the output
\* file are those of the first call.
C14_Idempotent ==
    (pc = "done" /\ DOMAIN ret # {} /\ proceed \in YesAnswers)
        => (ret.proceed \in YesAnswers
                => /\ all_samples = ret.all_samples
                   /\ result = ret.result
                   /\ output_file = ret.output_file
                   /\ errors = ret.errors)

\* C14 witness: the second call is over with the two records and the file
\* of the first, which found the file of an earlier crawl.
C14_Witness ==
    /\ pc = "done"
    /\ DOMAIN ret # {}
    /\ proceed \in YesAnswers
    /\ ret.proceed \in YesAnswers
    /\ Len(ret.all_samples) = 2
    /\ all_samples = ret.all_samples
    /\ output_file = ret.output_file
    /\ Len(output_file.rows) = 2
    /\ output_file # OldFile

(***************************************************************************)
(* Properties of scrape_year, continued (specification Spec).              *)
(***************************************************************************)
\* The step is the end of the last link of a listing page.
LastLinkDone == pc = "detail" /\ i = Len(page_links) /\ (pc' # "detail")

\* C15: in each phase the page number starts at 1 (in discovery it is one
\* more than the number of pages analysed) and changes only by one, after a
\* listing page that was processed without a page error and whose
\* end_range is below the total; a listing page that was served is not
\* asked for again; a page processed without a page error whose end_range
\* reaches the total ends the phase with the page number as it is, and a
\* phase ends well only there; no phase is entered again.
C15_PageOrder ==
    [][ /\ pc = "analyze" => page = Len(page_counts) + 1
        /\ (pc = "prompt" /\ pc' = "scrape") => page' = 1
        /\ page' # page
            => \/ pc = "prompt" /\ page' = 1
               \/ /\ page' = page + 1
                  /\ pc = "analyze" /\ pc' = "analyze"
                  /\ served' = served + 1
                  /\ errors' = errors
                  /\ end_range' < total_accidents'
               \/ /\ page' = page + 1
                  /\ LastLinkDone /\ pc' = "scrape"
                  /\ end_range < total_accidents
        /\ (pc = "analyze" /\ served' # served /\ errors' = errors)
            => IF end_range' >= total_accidents'
               THEN pc' = "prompt" /\ page' = page
               ELSE pc' = "analyze" /\ page' = page + 1
        /\ (pc = "scrape" /\ served' # served)
            => pc' \in {"detail", "done"} /\ page' = page
        /\ LastLinkDone
            => IF end_range >= total_accidents
               THEN pc' = "done" /\ page' = page
               ELSE pc' = "scrape" /\ page' = page + 1
        /\ (pc = "detail" /\ ~LastLinkDone) => page' = page /\ pc' = "detail"
        /\ pc' = "prompt" => end_range' >= total_accidents'
        /\ (pc' = "done" /\ proceed' \in YesAnswers
                /\ Len(errors') = Len(errors))
            => LastLinkDone /\ end_range >= total_accidents
        /\ pc' = "analyze" => pc = "analyze"
        /\ pc' = "scrape" => pc \in {"prompt", "scrape", "detail"}
        /\ pc = "done" => FALSE
      ]_vars

\* C15 witness: the scraping went from page 1 to page 2 and ended there,
\* without an error, on a range that reaches the total.
C15_Witness ==
    /\ pc = "done"
    /\ proceed \in YesAnswers
    /\ page = 2
    /\ errors = <<>>
    /\ end_range >= total_accidents
    /\ Len(all_samples) = 2

\* C17: when the scraping ended on a page whose range reaches the total,
\* with no page given up and no record failed, the final output has as
\* many records as the total taken in the discovery.
C17_Complete ==
    (/\ pc = "done"
     /\ proceed \in YesAnswers
     /\ errors = <<>>
     /\ end_range >= total_accidents)
        => /\ Len(all_samples) = total_accidents
           /\ Len(output_file.rows) = total_accidents
           /\ Len(result.df) = total_accidents

\* s is the beginning of t.
IsPrefix(s, t) == Len(s) <= Len(t) /\ SubSeq(t, 1, Len(s)) = s

\* C18: within one crawl the list of records only grows, by one record at
\* its end, which is the record of the link at hand; and once the crawl
\* has written the file, every write keeps what the write before it wrote
\* as the beginning of the file.
C18_AppendOnly ==
    [][ /\ IsPrefix(all_samples, all_samples')
        /\ Len(all_samples') <= Len(all_samples) + 1
        /\ all_samples' # all_samples
            => /\ pc = "detail"
               /\ all_samples'[Len(all_samples')] =
                      _extract_accident_details(page_links[i],
                                                DetailPageOf(page_links[i]))
               /\ output_file' = to_csv(all_samples')
        /\ all_samples # <<>>
            => /\ output_file.exists
               /\ output_file'.exists
               /\ output_file'.columns = output_file.columns
               /\ IsPrefix(output_file.rows, output_file'.rows)
      ]_vars

\* C18 witness: a second record was put behind a different first one, and
\* the file written for the second time.
C18_Witness ==
    /\ Len(all_samples) = 2
    /\ all_samples[1] # all_samples[2]
    /\ output_file.exists
    /\ Len(output_file.rows) = 2
    /\ output_file.rows[1] = RowOf(all_samples[1])

(***************************************************************************)
(* Properties of scrape_year under fairness (specification SpecLive).      *)
(***************************************************************************)
\* C16: scrape_year returns in the end, whatever the server answers, also
\* when every listing page passes the checks and no range reaches the
\* total.
C16_Terminates == <>(pc = "done")

====
